---- MODULE Spec2Model ----
(***************************************************************************)
(* Model of wide_deep_utils.py: build_feature_columns (with its helpers    *)
(* _build_wide_columns and _build_deep_columns) and build_model.           *)
(*                                                                         *)
(* A behaviour is one call of build_feature_columns on arguments drawn in  *)
(* Init, followed by calls of build_model, either on the returned pair or  *)
(* on column lists the caller chooses.  Every object a tf.feature_column   *)
(* constructor returns carries a fresh id, so that "the same object" and   *)
(* "an equal object built again" are different things in the model.        *)
(***************************************************************************)
EXTENDS Integers, Sequences, FiniteSets, TLC

\* ---------------------------------------------------------------- bounds
MaxVocab == 2      \* largest number of users / of items
MaxFeat  == 2      \* longest item_feat_col list
MaxDim   == 4      \* largest embedding dimension
MaxShape == 1      \* largest item_feat_shape
Scale    == 1000   \* representable reals are the multiples of 1/Scale

\* ------------------------------------------------------- program constants
DEFAULT_USER_COL == "userID"
DEFAULT_ITEM_COL == "itemID"
MODEL_DIR        == "model_checkpoints"
HASH_BUCKET_SIZE == 1000

FeatNames == <<"f1", "f2", "f3", "f4">>

\* item_feat_col is None, a str or a list: a tagged value, names in order.
NoneCol      == [tag |-> "none", names |-> <<>>]
StrCol(nm)   == [tag |-> "str",  names |-> <<nm>>]
ListCol(nms) == [tag |-> "list", names |-> nms]

ItemFeatCols ==
    {NoneCol, StrCol(FeatNames[1])}
        \cup {ListCol(SubSeq(FeatNames, 1, n)) : n \in 0..MaxFeat}
        \cup {ListCol(<<FeatNames[2], FeatNames[1]>>)}

Vocabularies == {[i \in 1..n |-> i] : n \in 1..MaxVocab}
Dimensions   == (-1)..MaxDim
Shapes       == 1..MaxShape
ModelTypes   == {"wide", "deep", "wide_deep", "bogus"}
Optimizers   == {"Ftrl", "Adagrad"}

\* ------------------------------------------------------------------ state
VARIABLES
    pc,              \* position of the build_feature_columns call
    users, items,    \* the vocabularies passed in
    item_feat_col, user_dim, item_dim, item_feat_shape, model_type,
    user_ids, item_ids,          \* locals of build_feature_columns
    wide_columns, deep_columns,  \* the two halves of the result being built
    result,          \* what build_feature_columns gave its caller
    stdout,          \* lines written by print
    created,         \* every feature column constructed so far, in order
    model            \* what the last build_model call gave its caller

vars == <<pc, users, items, item_feat_col, user_dim, item_dim,
          item_feat_shape, model_type, user_ids, item_ids, wide_columns,
          deep_columns, result, stdout, created, model>>

args == <<users, items, item_feat_col, user_dim, item_dim,
          item_feat_shape, model_type>>

Null    == [type |-> "null"]
NoError == [type |-> "none", msg |-> <<>>, raised_by |-> "none"]

ValueError(msg, by) == [type |-> "ValueError", msg |-> msg, raised_by |-> by]

\* The message of line 56, split at its quote characters.
ModelTypeMsg ==
    <<"Model type should be either ", "wide", ", ", "deep", ", or ",
      "wide_deep", "">>

\* The message of lines 201-205, one element per line.
ColumnsMsg ==
    <<"To generate wide model, set wide_columns.",
      "To generate deep model, set deep_columns.",
      "To generate wide_deep model, set both wide_columns and deep_columns.">>

InvalidDimensionMsg == <<"Invalid dimension">>

\* ------------------------------------------------------------- arithmetic
RECURSIVE ISqrtIn(_, _, _)
\* The largest r in lo..hi with r * r <= n, given lo * lo <= n.
ISqrtIn(n, lo, hi) ==
    IF lo >= hi THEN lo
    ELSE LET mid == (lo + hi + 1) \div 2
         IN  IF mid * mid <= n THEN ISqrtIn(n, mid, hi)
             ELSE ISqrtIn(n, lo, mid - 1)

\* 46340 is the largest integer whose square fits 32 bits.
ISqrt(n) == ISqrtIn(n, 0, IF n < 46340 THEN n ELSE 46340)

\* The representable number (a multiple of 1/Scale, given as its numerator)
\* nearest the real square root of d, d >= 0.
FSqrt(d) == (ISqrt(4 * d * Scale * Scale) + 1) \div 2

\* A product of two representable numbers, rounded to the nearest one.
FMul(a, b) == (2 * a * b + Scale) \div (2 * Scale)

\* The exponent forgotten: the dimension itself as the bound.
Pow05NoRoot(d) ==
    IF d >= 0 THEN [re |-> d * Scale, im |-> 0]
    ELSE [re |-> 0, im |-> (-d) * Scale]

\* d ** .5 of Python 3: a float for d >= 0, a complex number for d < 0.
Pow05(d) ==
    IF d >= 0 THEN [re |-> FSqrt(d), im |-> 0]
    ELSE [re |-> 0, im |-> FSqrt(-d)]

\* ---------------------------------------------- tf.feature_column objects
categorical_column_with_vocabulary_list(id, key, vocabulary_list) ==
    [type |-> "vocabulary_list", id |-> id, key |-> key,
     vocabulary_list |-> vocabulary_list]

crossed_column(id, keys, hash_bucket_size) ==
    [type |-> "crossed", id |-> id, keys |-> keys,
     hash_bucket_size |-> hash_bucket_size]

embedding_column(id, categorical_column, dimension, max_norm) ==
    [type |-> "embedding", id |-> id,
     categorical_column |-> categorical_column,
     dimension |-> dimension, max_norm |-> max_norm]

numeric_column(id, key, shape) ==
    [type |-> "numeric", id |-> id, key |-> key, shape |-> shape,
     dtype |-> "float32"]

\* The bucket count taken from the vocabulary sizes instead of line 70's.
_build_wide_columns_sized(uids, iids, id) ==
    <<crossed_column(id, <<uids, iids>>,
          Len(uids.vocabulary_list) * Len(iids.vocabulary_list))>>

\* ------------------------------------------------- _build_wide_columns
\* The list of lines 69-71; id is the identity of the new crossed column.
_build_wide_columns(uids, iids, id) ==
    <<crossed_column(id, <<uids, iids>>, HASH_BUCKET_SIZE)>>

\* ------------------------------------------------- _build_deep_columns
\* The user embedding over an encoding built again from the same vocabulary.
UserEmbeddingRebuilt(uids, udim, id) ==
    embedding_column(id,
        categorical_column_with_vocabulary_list(id, uids.key,
                                                uids.vocabulary_list),
        udim, Pow05(udim))

\* Line 90-94 and line 96-100.
UserEmbedding(uids, udim, id) == embedding_column(id, uids, udim, Pow05(udim))

ItemEmbedding(iids, idim, id) == embedding_column(id, iids, idim, Pow05(idim))

\* The single-name branch of lines 118-125 left out.
ItemFeatureColumnsListOnly(feat, shape, base) ==
    IF feat.tag = "list"
    THEN [i \in 1..Len(feat.names) |->
             numeric_column(base + i, feat.names[i], shape)]
    ELSE <<>>

\* Lines 107-125: the numeric columns appended after the embeddings; the
\* new objects take the identities base + 1, base + 2, ...
ItemFeatureColumns(feat, shape, base) ==
    IF feat.tag = "none" THEN <<>>
    ELSE IF feat.tag = "list"
         THEN [i \in 1..Len(feat.names) |->
                  numeric_column(base + i, feat.names[i], shape)]
         ELSE <<numeric_column(base + 1, feat.names[1], shape)>>

PrintLine(label, value) == [label |-> label, value |-> value]

\* Lines 104 and 110: what _build_deep_columns writes to standard output.
DeepPrints(feat) ==
    <<PrintLine("item_feat_col :::::::: ", feat)>>
        \o (IF feat.tag = "list"
            THEN [i \in 1..Len(feat.names) |->
                     PrintLine("feat_nm :::::::: ", StrCol(feat.names[i]))]
            ELSE <<>>)

\* Lines 88-126 when both embeddings are built.
_build_deep_columns(uids, iids, udim, idim, feat, shape, base) ==
    <<UserEmbedding(uids, udim, base + 1), ItemEmbedding(iids, idim, base + 2)>>
        \o ItemFeatureColumns(feat, shape, base + 2)

\* --------------------------------------------------- build_feature_columns
NoResult == [status |-> "none", wide |-> <<>>, deep |-> <<>>, error |-> NoError]

\* The two halves of the pair in the wrong order.
ReturnedSwapped(w, d) ==
    [status |-> "returned", wide |-> d, deep |-> w, error |-> NoError]

Returned(w, d) ==
    [status |-> "returned", wide |-> w, deep |-> d, error |-> NoError]

Raised(e) == [status |-> "raised", wide |-> <<>>, deep |-> <<>>, error |-> e]

NoModel ==
    [status |-> "none", composed |-> FALSE, wide_arg |-> <<>>,
     deep_arg |-> <<>>, linear_optimizer_arg |-> "", estimator |-> Null,
     error |-> NoError]

Init ==
    /\ pc = "L45"
    /\ users \in Vocabularies
    /\ items \in Vocabularies
    /\ item_feat_col \in ItemFeatCols
    /\ user_dim \in Dimensions
    /\ item_dim \in Dimensions
    /\ item_feat_shape \in Shapes
    /\ model_type \in ModelTypes
    /\ user_ids = Null
    /\ item_ids = Null
    /\ wide_columns = <<>>
    /\ deep_columns = <<>>
    /\ result = NoResult
    /\ stdout = <<>>
    /\ created = <<>>
    /\ model = NoModel

\* Line 45.
CreateUserIds ==
    /\ pc = "L45"
    /\ LET c == categorical_column_with_vocabulary_list(
                    Len(created) + 1, DEFAULT_USER_COL, users)
       IN  /\ user_ids' = c
           /\ created' = Append(created, c)
    /\ pc' = "L46"
    /\ UNCHANGED <<args, item_ids, wide_columns, deep_columns, result,
                   stdout, model>>

\* Line 46.
CreateItemIds ==
    /\ pc = "L46"
    /\ LET c == categorical_column_with_vocabulary_list(
                    Len(created) + 1, DEFAULT_ITEM_COL, items)
       IN  /\ item_ids' = c
           /\ created' = Append(created, c)
    /\ pc' = "L48"
    /\ UNCHANGED <<args, user_ids, wide_columns, deep_columns, result,
                   stdout, model>>

\* The wide_deep branch building the deep half only.
FirstStepDeepOnly(mt) ==
    IF mt = "wide" THEN "wide"
    ELSE IF mt = "deep" \/ mt = "wide_deep" THEN "deep"
    ELSE "raise"

\* The final else of line 55 falling back to the default mode.
FirstStepDefault(mt) ==
    IF mt = "wide" THEN "wide"
    ELSE IF mt = "deep" THEN "deep"
    ELSE "wide"

\* Lines 48-56: which helper runs first, or the ValueError of line 56.
FirstStep(mt) ==
    IF mt = "wide" \/ mt = "wide_deep" THEN "wide"
    ELSE IF mt = "deep" THEN "deep"
    ELSE "raise"

Dispatch ==
    /\ pc = "L48"
    /\ IF FirstStep(model_type) = "raise"
       THEN /\ pc' = "raised"
            /\ result' = Raised(ValueError(ModelTypeMsg, "build_feature_columns"))
       ELSE /\ pc' = FirstStep(model_type)
            /\ UNCHANGED result
    /\ UNCHANGED <<args, user_ids, item_ids, wide_columns, deep_columns,
                   stdout, created, model>>

\* Lines 49 and 53: the call of _build_wide_columns.
BuildWideColumns ==
    /\ pc = "wide"
    /\ LET w == _build_wide_columns(user_ids, item_ids, Len(created) + 1)
       IN  /\ wide_columns' = w
           /\ created' = created \o w
    /\ pc' = IF model_type = "wide" THEN "return" ELSE "deep"
    /\ UNCHANGED <<args, user_ids, item_ids, deep_columns, result, stdout,
                   model>>

\* Lines 51 and 54: the call of _build_deep_columns.  The code hands
\* user_dim and item_dim to the library unchecked; whether the library
\* rejects a dimension below 1 is the library's choice.
BuildDeepColumns ==
    /\ pc = "deep"
    /\ \E rejects \in BOOLEAN :
         LET base == Len(created)
             e    == ValueError(InvalidDimensionMsg, "embedding_column")
         IN  IF rejects /\ user_dim < 1
             THEN /\ pc' = "raised"
                  /\ result' = Raised(e)
                  /\ UNCHANGED <<deep_columns, stdout, created>>
             ELSE IF rejects /\ item_dim < 1
             THEN /\ pc' = "raised"
                  /\ result' = Raised(e)
                  /\ created' =
                       Append(created, UserEmbedding(user_ids, user_dim, base + 1))
                  /\ UNCHANGED <<deep_columns, stdout>>
             ELSE LET d == _build_deep_columns(user_ids, item_ids, user_dim,
                               item_dim, item_feat_col, item_feat_shape, base)
                  IN  /\ pc' = "return"
                      /\ deep_columns' = d
                      /\ created' = created \o d
                      /\ stdout' = stdout \o DeepPrints(item_feat_col)
                      /\ UNCHANGED result
    /\ UNCHANGED <<args, user_ids, item_ids, wide_columns, model>>

\* The return of line 49, 51 or 53-54.
Return ==
    /\ pc = "return"
    /\ pc' = "done"
    /\ result' = Returned(wide_columns, deep_columns)
    /\ UNCHANGED <<args, user_ids, item_ids, wide_columns, deep_columns,
                   stdout, created, model>>

\* ------------------------------------------------------------ build_model
DNN_OPTIMIZER          == "Adagrad"
DNN_HIDDEN_UNITS       == <<128, 128>>
DNN_DROPOUT            == 0
DNN_BATCH_NORM         == TRUE
LOG_EVERY_N_ITER       == 1000
SAVE_CHECKPOINTS_STEPS == 10000

\* Lines 163-166.
RunConfig(log_every_n_iter, save_checkpoints_steps) ==
    [log_step_count_steps |-> log_every_n_iter,
     save_checkpoints_steps |-> save_checkpoints_steps]

\* Lines 169-174.
LinearRegressor(model_dir, config, feature_columns, optimizer) ==
    [type |-> "LinearRegressor", model_dir |-> model_dir, config |-> config,
     feature_columns |-> feature_columns, optimizer |-> optimizer]

\* Lines 176-184.
DNNRegressor(model_dir, config, feature_columns, hidden_units, optimizer, dropout, batch_norm) ==
    [type |-> "DNNRegressor", model_dir |-> model_dir, config |-> config,
     feature_columns |-> feature_columns, hidden_units |-> hidden_units,
     optimizer |-> optimizer, dropout |-> dropout, batch_norm |-> batch_norm]

\* Lines 186-198.
DNNLinearCombinedRegressor(model_dir, config, linear_feature_columns, linear_optimizer, dnn_feature_columns, dnn_hidden_units, dnn_optimizer, dnn_dropout, batch_norm) ==
    [type |-> "DNNLinearCombinedRegressor", model_dir |-> model_dir,
     config |-> config, linear_feature_columns |-> linear_feature_columns,
     linear_optimizer |-> linear_optimizer,
     dnn_feature_columns |-> dnn_feature_columns,
     dnn_hidden_units |-> dnn_hidden_units, dnn_optimizer |-> dnn_optimizer,
     dnn_dropout |-> dnn_dropout, batch_norm |-> batch_norm]

\* The first test of line 168 without its second conjunct.
build_model_wide_first(wide, deep, linear_optimizer, dnn_optimizer) ==
    LET config == RunConfig(LOG_EVERY_N_ITER, SAVE_CHECKPOINTS_STEPS)
    IN  IF Len(wide) > 0
        THEN [status |-> "returned", error |-> NoError,
              estimator |->
                  LinearRegressor(MODEL_DIR, config, wide, linear_optimizer)]
        ELSE IF Len(deep) > 0
        THEN [status |-> "returned", error |-> NoError,
              estimator |->
                  DNNRegressor(MODEL_DIR, config, deep, DNN_HIDDEN_UNITS,
                               dnn_optimizer, DNN_DROPOUT, DNN_BATCH_NORM)]
        ELSE [status |-> "raised", estimator |-> Null,
              error |-> ValueError(ColumnsMsg, "build_model")]

\* Lines 163-208: what a call of build_model gives its caller, the other
\* arguments left at their defaults.
build_model(wide, deep, linear_optimizer, dnn_optimizer) ==
    LET config == RunConfig(LOG_EVERY_N_ITER, SAVE_CHECKPOINTS_STEPS)
    IN  IF Len(wide) > 0 /\ Len(deep) = 0
        THEN [status |-> "returned", error |-> NoError,
              estimator |->
                  LinearRegressor(MODEL_DIR, config, wide, linear_optimizer)]
        ELSE IF Len(wide) = 0 /\ Len(deep) > 0
        THEN [status |-> "returned", error |-> NoError,
              estimator |->
                  DNNRegressor(MODEL_DIR, config, deep, DNN_HIDDEN_UNITS,
                               dnn_optimizer, DNN_DROPOUT, DNN_BATCH_NORM)]
        ELSE IF Len(wide) > 0 /\ Len(deep) > 0
        THEN [status |-> "returned", error |-> NoError,
              estimator |->
                  DNNLinearCombinedRegressor(
                      MODEL_DIR, config, wide, linear_optimizer, deep,
                      DNN_HIDDEN_UNITS, dnn_optimizer, DNN_DROPOUT,
                      DNN_BATCH_NORM)]
        ELSE [status |-> "raised", estimator |-> Null,
              error |-> ValueError(ColumnsMsg, "build_model")]

\* A column list a caller may pass that no build_feature_columns call made.
CallerColumns == <<numeric_column(0, FeatNames[1], 1)>>

CallBuildModel(composed, wide, deep, linear_optimizer) ==
    LET out == build_model(wide, deep, linear_optimizer, DNN_OPTIMIZER)
    IN  /\ model' = [status |-> out.status, composed |-> composed,
                     wide_arg |-> wide, deep_arg |-> deep,
                     linear_optimizer_arg |-> linear_optimizer,
                     estimator |-> out.estimator, error |-> out.error]
        /\ UNCHANGED <<pc, args, user_ids, item_ids, wide_columns,
                       deep_columns, result, stdout, created>>

\* build_model on the pair build_feature_columns returned, unchanged.
BuildModelOnResult ==
    /\ pc = "done"
    /\ \E linear_optimizer \in Optimizers :
         CallBuildModel(TRUE, result.wide, result.deep, linear_optimizer)

\* build_model on column lists of the caller's choosing.
BuildModelOnColumns ==
    /\ pc \in {"done", "raised"}
    /\ \E wide \in {<<>>, CallerColumns, result.wide},
          deep \in {<<>>, CallerColumns, result.deep},
          linear_optimizer \in Optimizers :
         CallBuildModel(FALSE, wide, deep, linear_optimizer)

Next ==
    \/ CreateUserIds
    \/ CreateItemIds
    \/ Dispatch
    \/ BuildWideColumns
    \/ BuildDeepColumns
    \/ Return
    \/ BuildModelOnResult
    \/ BuildModelOnColumns

Spec == Init /\ [][Next]_vars

\* ================================================================ claims
ValidTypes == {"wide", "deep", "wide_deep"}
DeepTypes  == {"deep", "wide_deep"}

\* build_feature_columns has returned or raised.
Finished == pc \in {"done", "raised"}

\* The number of item feature columns item_feat_col declares.
Declared(feat) == IF feat.tag = "none" THEN 0 ELSE Len(feat.names)

\* C1: a call with a valid model_type (and, where embeddings are built,
\* positive dimensions) returns a pair, and the pair a call returns is
\* (non-empty, empty) in wide mode, (empty, non-empty) in deep mode and
\* (non-empty, non-empty) in wide_deep mode.
C1_EmptinessPattern ==
    /\ (/\ Finished
        /\ model_type \in ValidTypes
        /\ model_type = "wide" \/ (user_dim >= 1 /\ item_dim >= 1))
           => result.status = "returned"
    /\ result.status = "returned" =>
         /\ model_type \in ValidTypes
         /\ model_type = "wide" =>
                Len(result.wide) > 0 /\ Len(result.deep) = 0
         /\ model_type = "deep" =>
                Len(result.wide) = 0 /\ Len(result.deep) > 0
         /\ model_type = "wide_deep" =>
                Len(result.wide) > 0 /\ Len(result.deep) > 0

C1_Witness ==
    /\ result.status = "returned"
    /\ model_type = "wide_deep"
    /\ Len(result.wide) > 0
    /\ Len(result.deep) > 0

\* C2: the outcome of build_model is decided by which of its two column
\* lists are empty: wide only gives a LinearRegressor over the wide list
\* with linear_optimizer, deep only a DNNRegressor over the deep list, both
\* a DNNLinearCombinedRegressor over both, and neither a ValueError raised
\* by build_model with no estimator returned.
C2_DispatchByEmptiness ==
    model.status # "none" =>
        LET w == model.wide_arg
            d == model.deep_arg
            m == model.estimator
        IN  /\ (Len(w) > 0 /\ Len(d) = 0) =>
                 /\ model.status = "returned"
                 /\ m.type = "LinearRegressor"
                 /\ m.feature_columns = w
                 /\ m.optimizer = model.linear_optimizer_arg
            /\ (Len(w) = 0 /\ Len(d) > 0) =>
                 /\ model.status = "returned"
                 /\ m.type = "DNNRegressor"
                 /\ m.feature_columns = d
            /\ (Len(w) > 0 /\ Len(d) > 0) =>
                 /\ model.status = "returned"
                 /\ m.type = "DNNLinearCombinedRegressor"
                 /\ m.linear_feature_columns = w
                 /\ m.dnn_feature_columns = d
                 /\ m.linear_optimizer = model.linear_optimizer_arg
            /\ (Len(w) = 0 /\ Len(d) = 0) =>
                 /\ model.status = "raised"
                 /\ model.error.type = "ValueError"
                 /\ model.error.raised_by = "build_model"
                 /\ m = Null
            /\ model.status = "returned" <=> model.error = NoError
            /\ model.status = "raised" <=> m = Null

C2_Witness ==
    /\ model.status = "raised"
    /\ ~model.composed
    /\ model.wide_arg = <<>>
    /\ model.deep_arg = <<>>
    /\ model.error.type = "ValueError"

Mentions(msg, word) == \E i \in DOMAIN msg : msg[i] = word

\* C3: with a model_type other than 'wide', 'deep' and 'wide_deep' the call
\* builds no transform, and ends by raising a ValueError of its own whose
\* message names the three accepted values; no pair is returned, whatever
\* the other arguments.
C3_UnknownModelType ==
    model_type \notin ValidTypes =>
        /\ pc \in {"L45", "L46", "L48", "raised"}
        /\ wide_columns = <<>>
        /\ deep_columns = <<>>
        /\ result.status # "returned"
        /\ pc = "raised" =>
             /\ result.status = "raised"
             /\ result.error.type = "ValueError"
             /\ result.error.raised_by = "build_feature_columns"
             /\ \A t \in ValidTypes : Mentions(result.error.msg, t)
             /\ result.wide = <<>>
             /\ result.deep = <<>>

C3_Witness ==
    /\ pc = "raised"
    /\ model_type = "bogus"
    /\ result.error.raised_by = "build_feature_columns"
    /\ item_feat_col.tag = "list"
    /\ user_dim < 1

IsEmbedding(c) == c.type = "embedding"

\* C4: in deep and wide_deep mode a call with user_dim <= 0 or item_dim <= 0
\* ends by raising a ValueError of build_feature_columns' own validation,
\* before any embedding column is constructed, and returns no pair.
C4_DimensionValidated ==
    (/\ model_type \in DeepTypes
     /\ user_dim <= 0 \/ item_dim <= 0)
        => /\ \A i \in DOMAIN created : ~IsEmbedding(created[i])
           /\ result.status # "returned"
           /\ Finished =>
                /\ result.status = "raised"
                /\ result.error.raised_by = "build_feature_columns"

\* Both dimensions are positive, as the contract of build_feature_columns
\* asks of its caller.
ValidDims == user_dim >= 1 /\ item_dim >= 1

\* C5: no step of a build_feature_columns call (on valid dimensions, in any
\* mode and for any item_feat_col) writes to an output stream or changes the
\* users or items vocabulary.
C5_NoSideEffect ==
    [][ValidDims => (stdout' = stdout /\ users' = users /\ items' = items)]_vars

\* C6: the deep list a deep or wide_deep call returns is the user embedding,
\* the item embedding, then one numeric column per declared item feature
\* column in declaration order: 2 entries for None and for an empty list,
\* 3 for a single name, 2 + n for a list of n names.
C6_DeepListShape ==
    (result.status = "returned" /\ model_type \in DeepTypes) =>
        LET d == result.deep
            f == item_feat_col
        IN  /\ Len(d) = 2 + Declared(f)
            /\ f.tag = "none" => Len(d) = 2
            /\ (f.tag = "list" /\ f.names = <<>>) => Len(d) = 2
            /\ f.tag = "str" => Len(d) = 3
            /\ f.tag = "list" => Len(d) = 2 + Len(f.names)
            /\ IsEmbedding(d[1])
            /\ d[1].categorical_column.key = DEFAULT_USER_COL
            /\ d[1].dimension = user_dim
            /\ IsEmbedding(d[2])
            /\ d[2].categorical_column.key = DEFAULT_ITEM_COL
            /\ d[2].dimension = item_dim
            /\ \A i \in 1..Declared(f) :
                 /\ d[2 + i].type = "numeric"
                 /\ d[2 + i].key = f.names[i]
                 /\ d[2 + i].shape = item_feat_shape

C6_Witness ==
    /\ result.status = "returned"
    /\ model_type = "deep"
    /\ item_feat_col = ListCol(<<FeatNames[2], FeatNames[1]>>)
    /\ Len(result.deep) = 4
    /\ result.deep[3].key = FeatNames[2]

\* C7: a wide call always returns; its wide list is exactly one crossed
\* column over the user and the item encoding with 1000 hash buckets and its
\* deep list is empty; no embedding or numeric column is constructed and
\* nothing else of the result varies with the vocabulary sizes,
\* item_feat_col, item_feat_shape, user_dim or item_dim.
C7_WideMode ==
    model_type = "wide" =>
        /\ Finished => result.status = "returned"
        /\ \A i \in DOMAIN created :
             created[i].type \in {"vocabulary_list", "crossed"}
        /\ result.status = "returned" =>
             /\ Len(result.wide) = 1
             /\ result.wide[1].type = "crossed"
             /\ result.wide[1].keys = <<user_ids, item_ids>>
             /\ user_ids.key = DEFAULT_USER_COL
             /\ user_ids.vocabulary_list = users
             /\ item_ids.key = DEFAULT_ITEM_COL
             /\ item_ids.vocabulary_list = items
             /\ result.wide[1].hash_bucket_size = 1000
             /\ result.deep = <<>>
             /\ Len(created) = 3

C7_Witness ==
    /\ result.status = "returned"
    /\ model_type = "wide"
    /\ Len(users) = MaxVocab
    /\ Len(items) = 1
    /\ item_feat_col.tag = "list"
    /\ user_dim < 1
    /\ Len(result.wide) = 1

Encodings == {i \in DOMAIN created : created[i].type = "vocabulary_list"}

\* C8: in a wide_deep call the crossed column and the two embedding columns
\* are built over the same two encoding objects, and the call constructs
\* exactly one user encoding and one item encoding.
C8_SharedEncodings ==
    /\ Cardinality(Encodings) <= 2
    /\ (result.status = "returned" /\ model_type = "wide_deep") =>
        /\ Cardinality(Encodings) = 2
        /\ \A i \in Encodings : created[i] \in {user_ids, item_ids}
        /\ user_ids.id # item_ids.id
        /\ result.wide[1].keys = <<user_ids, item_ids>>
        /\ result.deep[1].categorical_column = result.wide[1].keys[1]
        /\ result.deep[2].categorical_column = result.wide[1].keys[2]
        /\ result.deep[1].categorical_column.id = user_ids.id
        /\ result.deep[2].categorical_column.id = item_ids.id

C8_Witness ==
    /\ result.status = "returned"
    /\ model_type = "wide_deep"
    /\ Len(users) = MaxVocab
    /\ result.deep[1].categorical_column = result.wide[1].keys[1]
    /\ result.deep[2].categorical_column = result.wide[1].keys[2]

\* The embedding columns of a returned deep list.
Embeddings == {i \in DOMAIN result.deep : IsEmbedding(result.deep[i])}

\* C9 as stated: in a call on positive dimensions every embedding has a real
\* norm bound with bound * bound = dimension.
C9_BoundSquaredIsDimension ==
    (result.status = "returned" /\ ValidDims) =>
        \A i \in Embeddings :
            LET e == result.deep[i]
            IN  /\ e.max_norm.im = 0
                /\ FMul(e.max_norm.re, e.max_norm.re) = e.dimension * Scale

\* C9 as amended: every embedding of positive dimension has as norm bound
\* the representable number nearest the square root of its own dimension
\* (user_dim for the user embedding, item_dim for the item embedding);
\* bound * bound is the dimension when the dimension is a perfect square and
\* is within the rounding error of the square root otherwise.
C9_BoundIsRoundedRoot ==
    result.status = "returned" =>
        /\ \A i \in Embeddings :
            LET e  == result.deep[i]
                b  == e.max_norm.re
                n  == e.dimension * Scale * Scale
            IN  e.dimension >= 1 =>
                    /\ e.max_norm.im = 0
                    /\ b * b - b <= n
                    /\ n <= b * b + b
                    /\ \A k \in 1..e.dimension :
                         k * k = e.dimension =>
                             /\ b = k * Scale
                             /\ FMul(b, b) = e.dimension * Scale
        /\ model_type \in DeepTypes =>
            /\ Embeddings = {1, 2}
            /\ result.deep[1].dimension = user_dim
            /\ result.deep[2].dimension = item_dim

C9_Witness ==
    /\ result.status = "returned"
    /\ model_type = "deep"
    /\ user_dim = 2
    /\ item_dim = 4
    /\ result.deep[1].max_norm.re * result.deep[1].max_norm.re
           # 2 * Scale * Scale
    /\ result.deep[2].max_norm.re = 2 * Scale

\* C10: build_model called on the pair build_feature_columns returned never
\* raises, and the estimator it returns matches the mode: wide gives a
\* LinearRegressor, deep a DNNRegressor, wide_deep a
\* DNNLinearCombinedRegressor.
C10_Composition ==
    (model.status # "none" /\ model.composed) =>
        /\ result.status = "returned"
        /\ model.wide_arg = result.wide
        /\ model.deep_arg = result.deep
        /\ model.status = "returned"
        /\ model.error = NoError
        /\ model_type = "wide" => model.estimator.type = "LinearRegressor"
        /\ model_type = "deep" => model.estimator.type = "DNNRegressor"
        /\ model_type = "wide_deep" =>
               model.estimator.type = "DNNLinearCombinedRegressor"

C10_Witness ==
    /\ model.composed
    /\ model.status = "returned"
    /\ model_type = "deep"
    /\ model.estimator.type = "DNNRegressor"
====
